---------------------------- MODULE Spec2Model ----------------------------
(***************************************************************************)
(* Model of handright/_template.py: the Template parameter class, its      *)
(* seventeen setters and getters, __eq__, get_size and copy_templates.     *)
(*                                                                         *)
(* Representation of Python values.                                        *)
(*  - An int is an integer.                                                *)
(*  - A float is an integer count of 1/6400ths: 0.07 is 448, 0.5 is 3200,  *)
(*    and the true divisions font_size / 32 and font_size / 64 of an int   *)
(*    are font_size * 200 and font_size * 100.                             *)
(*  - An Optional argument is a sequence: None is << >>, a value v is      *)
(*    << v >>.  An argument the caller omits is None as well; a parameter  *)
(*    whose signature default is not None is resolved by Default.          *)
(*  - A background or a font is a handle (the identity of the object the   *)
(*    caller supplied); the image behind a background handle has a mode    *)
(*    and a size.                                                          *)
(*  - A fill is [scalar, bands]: the scalar c is [TRUE, <<c>>], the tuple  *)
(*    (a, b, c) is [FALSE, <<a, b, c>>].                                   *)
(*  - A Template object is a reference into heap, a sequence of records    *)
(*    with one field for each attribute (_background is background, ...).  *)
(***************************************************************************)
EXTENDS Integers, Sequences, FiniteSets, TLC

VARIABLES heap, given, last, calls

vars == << heap, given, last, calls >>

----------------------------------------------------------------------------
(* Bounds of the model. *)

\* the number of optional constructor arguments a caller passes explicitly
MaxGiven == 1
\* the number of setter calls made after the templates are constructed
MaxCalls == 1
\* the number of Template objects alive
MaxHeap == 4

----------------------------------------------------------------------------
(* Python values *)

None == << >>
Some(v) == << v >>
Value(x) == x[1]

\* a parameter with a signature default that is not None: the default when
\* the caller omits the argument
Default(x, d) == IF x = None THEN d ELSE Value(x)

Scalar(c) == [scalar |-> TRUE, bands |-> << c >>]
Tuple(cs) == [scalar |-> FALSE, bands |-> cs]

\* (0,) * n
RECURSIVE Zeros(_)
Zeros(n) == IF n <= 0 THEN << >> ELSE Append(Zeros(n - 1), 0)

\* the int font_size divided by 32 and by 64 (true division), in 1/6400ths
Div32(n) == n * 200
Div64(n) == n * 100

----------------------------------------------------------------------------
(* Module constants *)

\* the ASCII characters of the literal
_DEFAULT_END_CHARS == ",.>?;:]}!%)"
\* 0.07
_DEFAULT_PERTURB_THETA_SIGMA == 448
_DEFAULT_WORD_SPACING == 0
_DEFAULT_LEFT_MARGIN == 0
_DEFAULT_TOP_MARGIN == 0
_DEFAULT_RIGHT_MARGIN == 0
_DEFAULT_BOTTOM_MARGIN == 0

----------------------------------------------------------------------------
(* The images and fonts the caller holds *)

Backgrounds == {"paperL", "paperRGB"}
Fonts == {"fontA", "fontB"}

\* PIL.Image.Image.mode and .size of the image behind a handle
ImageMode(bg) == IF bg = "paperL" THEN "L" ELSE "RGB"
ImageSize(bg) == IF bg = "paperL" THEN << 4, 3 >> ELSE << 6, 5 >>

\* handright._util.count_bands: the number of bands of a pixel mode
count_bands(mode) ==
    CASE mode = "L" -> 1
      [] mode = "LA" -> 2
      [] mode = "RGB" -> 3
      [] mode = "RGBA" -> 4

----------------------------------------------------------------------------
(* class Template: the setters.  Each takes the object's attributes and    *)
(* returns them after the call.                                            *)

\* as set_background, but the fill is reset to the default of the new
\* background as well
set_background_and_fill(self, background) ==
    [self EXCEPT !.background = background,
                 !.fill = IF count_bands(ImageMode(background)) = 1
                          THEN Scalar(0)
                          ELSE Tuple(Zeros(count_bands(ImageMode(background))))]

set_background(self, background) == [self EXCEPT !.background = background]

\* as set_font_size, but the font size sigma is derived again
set_font_size_rederiving(self, font_size) ==
    [self EXCEPT !.font_size = font_size,
                 !.font_size_sigma = Div64(font_size)]

set_font_size(self, font_size) == [self EXCEPT !.font_size = font_size]

set_line_spacing(self, line_spacing) ==
    IF line_spacing = None
    THEN [self EXCEPT !.line_spacing = self.font_size]
    ELSE [self EXCEPT !.line_spacing = Value(line_spacing)]

set_font(self, font) == [self EXCEPT !.font = font]

\* as set_fill, but the default is a tuple for every number of bands
set_fill_always_tuple(self, fill) ==
    IF fill = None
    THEN [self EXCEPT
            !.fill = Tuple(Zeros(count_bands(ImageMode(self.background))))]
    ELSE [self EXCEPT !.fill = Value(fill)]

set_fill(self, fill) ==
    IF fill = None
    THEN LET n_bands == count_bands(ImageMode(self.background))
         IN  IF n_bands = 1
             THEN [self EXCEPT !.fill = Scalar(0)]
             ELSE [self EXCEPT !.fill = Tuple(Zeros(n_bands))]
    ELSE [self EXCEPT !.fill = Value(fill)]

set_left_margin(self, left_margin) == [self EXCEPT !.left_margin = left_margin]

set_top_margin(self, top_margin) == [self EXCEPT !.top_margin = top_margin]

set_right_margin(self, right_margin) == [self EXCEPT !.right_margin = right_margin]

set_bottom_margin(self, bottom_margin) == [self EXCEPT !.bottom_margin = bottom_margin]

set_word_spacing(self, word_spacing) == [self EXCEPT !.word_spacing = word_spacing]

set_line_spacing_sigma(self, line_spacing_sigma) ==
    IF line_spacing_sigma = None
    THEN [self EXCEPT !.line_spacing_sigma = Div32(self.font_size)]
    ELSE [self EXCEPT !.line_spacing_sigma = Value(line_spacing_sigma)]

\* as set_font_size_sigma, but the default is font_size / 32
set_font_size_sigma_div32(self, font_size_sigma) ==
    IF font_size_sigma = None
    THEN [self EXCEPT !.font_size_sigma = Div32(self.font_size)]
    ELSE [self EXCEPT !.font_size_sigma = Value(font_size_sigma)]

set_font_size_sigma(self, font_size_sigma) ==
    IF font_size_sigma = None
    THEN [self EXCEPT !.font_size_sigma = Div64(self.font_size)]
    ELSE [self EXCEPT !.font_size_sigma = Value(font_size_sigma)]

set_word_spacing_sigma(self, word_spacing_sigma) ==
    IF word_spacing_sigma = None
    THEN [self EXCEPT !.word_spacing_sigma = Div32(self.font_size)]
    ELSE [self EXCEPT !.word_spacing_sigma = Value(word_spacing_sigma)]

set_end_chars(self, end_chars) == [self EXCEPT !.end_chars = end_chars]

set_perturb_x_sigma(self, perturb_x_sigma) ==
    IF perturb_x_sigma = None
    THEN [self EXCEPT !.perturb_x_sigma = Div32(self.font_size)]
    ELSE [self EXCEPT !.perturb_x_sigma = Value(perturb_x_sigma)]

set_perturb_y_sigma(self, perturb_y_sigma) ==
    IF perturb_y_sigma = None
    THEN [self EXCEPT !.perturb_y_sigma = Div32(self.font_size)]
    ELSE [self EXCEPT !.perturb_y_sigma = Value(perturb_y_sigma)]

set_perturb_theta_sigma(self, perturb_theta_sigma) ==
    [self EXCEPT !.perturb_theta_sigma = perturb_theta_sigma]

----------------------------------------------------------------------------
(* class Template: the getters *)

get_background(self) == self.background
get_line_spacing(self) == self.line_spacing
get_font_size(self) == self.font_size
get_font(self) == self.font
get_fill(self) == self.fill
get_left_margin(self) == self.left_margin
get_top_margin(self) == self.top_margin
get_right_margin(self) == self.right_margin
get_bottom_margin(self) == self.bottom_margin
get_word_spacing(self) == self.word_spacing
get_line_spacing_sigma(self) == self.line_spacing_sigma
get_font_size_sigma(self) == self.font_size_sigma
get_word_spacing_sigma(self) == self.word_spacing_sigma
get_end_chars(self) == self.end_chars
get_perturb_x_sigma(self) == self.perturb_x_sigma
get_perturb_y_sigma(self) == self.perturb_y_sigma
get_perturb_theta_sigma(self) == self.perturb_theta_sigma
get_size(self) == ImageSize(get_background(self))

----------------------------------------------------------------------------
(* Template.__init__ *)

\* a new object: no attribute is bound yet
NewObject ==
    [background |-> None, font_size |-> None, line_spacing |-> None,
     font |-> None, fill |-> None, left_margin |-> None, top_margin |-> None,
     right_margin |-> None, bottom_margin |-> None, word_spacing |-> None,
     line_spacing_sigma |-> None, font_size_sigma |-> None,
     word_spacing_sigma |-> None, end_chars |-> None,
     perturb_x_sigma |-> None, perturb_y_sigma |-> None,
     perturb_theta_sigma |-> None]

\* Template(**a): a.background, a.font_size and a.font are values, every
\* other argument is Optional (None: the caller omits it)
Template(a) ==
    LET s1  == set_background(NewObject, a.background)
        s2  == set_font_size(s1, a.font_size)
        s3  == set_line_spacing(s2, a.line_spacing)
        s4  == set_font(s3, a.font)
        s5  == set_fill(s4, a.fill)
        s6  == set_left_margin(s5, Default(a.left_margin, _DEFAULT_LEFT_MARGIN))
        s7  == set_top_margin(s6, Default(a.top_margin, _DEFAULT_TOP_MARGIN))
        s8  == set_right_margin(s7, Default(a.right_margin, _DEFAULT_RIGHT_MARGIN))
        s9  == set_bottom_margin(s8, Default(a.bottom_margin, _DEFAULT_BOTTOM_MARGIN))
        s10 == set_word_spacing(s9, Default(a.word_spacing, _DEFAULT_WORD_SPACING))
        s11 == set_line_spacing_sigma(s10, a.line_spacing_sigma)
        s12 == set_font_size_sigma(s11, a.font_size_sigma)
        s13 == set_word_spacing_sigma(s12, a.word_spacing_sigma)
        s14 == set_end_chars(s13, Default(a.end_chars, _DEFAULT_END_CHARS))
        s15 == set_perturb_x_sigma(s14, a.perturb_x_sigma)
        s16 == set_perturb_y_sigma(s15, a.perturb_y_sigma)
    IN  set_perturb_theta_sigma(
            s16, Default(a.perturb_theta_sigma, _DEFAULT_PERTURB_THETA_SIGMA))

----------------------------------------------------------------------------
(* Template.__eq__ and copy_templates *)

\* a Python value: a Template object (a reference into heap) or an int
Object(ref) == [type |-> "Template", ref |-> ref]
PyInt(n) == [type |-> "int", ref |-> n]

\* isinstance(other, Template)
IsTemplate(other) == other.type = "Template"

\* as __eq__, but perturb_theta_sigma is not compared
eq_without_theta_sigma(self, other) ==
    /\ IsTemplate(other)
    /\ get_background(heap[self.ref]) = get_background(heap[other.ref])
    /\ get_line_spacing(heap[self.ref]) = get_line_spacing(heap[other.ref])
    /\ get_line_spacing_sigma(heap[self.ref]) = get_line_spacing_sigma(heap[other.ref])
    /\ get_font_size(heap[self.ref]) = get_font_size(heap[other.ref])
    /\ get_font_size_sigma(heap[self.ref]) = get_font_size_sigma(heap[other.ref])
    /\ get_font(heap[self.ref]) = get_font(heap[other.ref])
    /\ get_fill(heap[self.ref]) = get_fill(heap[other.ref])
    /\ get_left_margin(heap[self.ref]) = get_left_margin(heap[other.ref])
    /\ get_top_margin(heap[self.ref]) = get_top_margin(heap[other.ref])
    /\ get_right_margin(heap[self.ref]) = get_right_margin(heap[other.ref])
    /\ get_bottom_margin(heap[self.ref]) = get_bottom_margin(heap[other.ref])
    /\ get_word_spacing(heap[self.ref]) = get_word_spacing(heap[other.ref])
    /\ get_word_spacing_sigma(heap[self.ref]) = get_word_spacing_sigma(heap[other.ref])
    /\ get_end_chars(heap[self.ref]) = get_end_chars(heap[other.ref])
    /\ get_perturb_x_sigma(heap[self.ref]) = get_perturb_x_sigma(heap[other.ref])
    /\ get_perturb_y_sigma(heap[self.ref]) = get_perturb_y_sigma(heap[other.ref])

\* self == other, for the Template object self and any value other
__eq__(self, other) ==
    /\ IsTemplate(other)
    /\ get_background(heap[self.ref]) = get_background(heap[other.ref])
    /\ get_line_spacing(heap[self.ref]) = get_line_spacing(heap[other.ref])
    /\ get_line_spacing_sigma(heap[self.ref]) = get_line_spacing_sigma(heap[other.ref])
    /\ get_font_size(heap[self.ref]) = get_font_size(heap[other.ref])
    /\ get_font_size_sigma(heap[self.ref]) = get_font_size_sigma(heap[other.ref])
    /\ get_font(heap[self.ref]) = get_font(heap[other.ref])
    /\ get_fill(heap[self.ref]) = get_fill(heap[other.ref])
    /\ get_left_margin(heap[self.ref]) = get_left_margin(heap[other.ref])
    /\ get_top_margin(heap[self.ref]) = get_top_margin(heap[other.ref])
    /\ get_right_margin(heap[self.ref]) = get_right_margin(heap[other.ref])
    /\ get_bottom_margin(heap[self.ref]) = get_bottom_margin(heap[other.ref])
    /\ get_word_spacing(heap[self.ref]) = get_word_spacing(heap[other.ref])
    /\ get_word_spacing_sigma(heap[self.ref]) = get_word_spacing_sigma(heap[other.ref])
    /\ get_end_chars(heap[self.ref]) = get_end_chars(heap[other.ref])
    /\ get_perturb_x_sigma(heap[self.ref]) = get_perturb_x_sigma(heap[other.ref])
    /\ get_perturb_y_sigma(heap[self.ref]) = get_perturb_y_sigma(heap[other.ref])
    /\ get_perturb_theta_sigma(heap[self.ref]) = get_perturb_theta_sigma(heap[other.ref])

\* as copy_templates, but the objects passed are returned themselves
copy_templates_same_objects(templates) == templates

\* tuple(map(copy.copy, templates)): the references returned.  copy.copy
\* makes a new object (the next free reference) bound to the same attribute
\* values; HeapAfterCopy is the heap holding the new objects.
copy_templates(templates) ==
    [i \in 1..Len(templates) |-> Len(heap) + i]

HeapAfterCopy(templates) ==
    heap \o [i \in 1..Len(templates) |-> heap[templates[i]]]

----------------------------------------------------------------------------
(* The arguments the callers pass *)

FontSizes == {8, 16}
LineSpacings == {12}
Fills == {Tuple(<< 255, 0, 0 >>)}
Margins == {-1, 2}
WordSpacings == {-8, -3}
\* -1.0 and 0.5
Sigmas == {-6400, 3200}
\* -1.0 and 0.0
ThetaSigmas == {-6400, 0}
EndChars == {"", _DEFAULT_END_CHARS}

Optional(S) == {None} \cup {Some(v) : v \in S}

\* Template(background, font_size, font): every optional argument omitted
Required ==
    {[background |-> b, font_size |-> n, font |-> f,
      line_spacing |-> None, fill |-> None, left_margin |-> None,
      top_margin |-> None, right_margin |-> None, bottom_margin |-> None,
      word_spacing |-> None, line_spacing_sigma |-> None,
      font_size_sigma |-> None, word_spacing_sigma |-> None,
      end_chars |-> None, perturb_x_sigma |-> None, perturb_y_sigma |-> None,
      perturb_theta_sigma |-> None] :
        b \in Backgrounds, n \in FontSizes, f \in {"fontA"}}

\* the argument lists a with one more optional argument passed
OneMore(a) ==
    UNION {
      IF a.line_spacing = None
      THEN {[a EXCEPT !.line_spacing = Some(v)] : v \in LineSpacings} ELSE {},
      IF a.fill = None
      THEN {[a EXCEPT !.fill = Some(v)] : v \in Fills} ELSE {},
      IF a.left_margin = None
      THEN {[a EXCEPT !.left_margin = Some(v)] : v \in Margins} ELSE {},
      IF a.top_margin = None
      THEN {[a EXCEPT !.top_margin = Some(v)] : v \in Margins} ELSE {},
      IF a.right_margin = None
      THEN {[a EXCEPT !.right_margin = Some(v)] : v \in Margins} ELSE {},
      IF a.bottom_margin = None
      THEN {[a EXCEPT !.bottom_margin = Some(v)] : v \in Margins} ELSE {},
      IF a.word_spacing = None
      THEN {[a EXCEPT !.word_spacing = Some(v)] : v \in WordSpacings} ELSE {},
      IF a.line_spacing_sigma = None
      THEN {[a EXCEPT !.line_spacing_sigma = Some(v)] : v \in Sigmas} ELSE {},
      IF a.font_size_sigma = None
      THEN {[a EXCEPT !.font_size_sigma = Some(v)] : v \in Sigmas} ELSE {},
      IF a.word_spacing_sigma = None
      THEN {[a EXCEPT !.word_spacing_sigma = Some(v)] : v \in Sigmas} ELSE {},
      IF a.end_chars = None
      THEN {[a EXCEPT !.end_chars = Some(v)] : v \in EndChars} ELSE {},
      IF a.perturb_x_sigma = None
      THEN {[a EXCEPT !.perturb_x_sigma = Some(v)] : v \in Sigmas} ELSE {},
      IF a.perturb_y_sigma = None
      THEN {[a EXCEPT !.perturb_y_sigma = Some(v)] : v \in Sigmas} ELSE {},
      IF a.perturb_theta_sigma = None
      THEN {[a EXCEPT !.perturb_theta_sigma = Some(v)] : v \in ThetaSigmas}
      ELSE {} }

\* the argument lists with at most k optional arguments passed
RECURSIVE Arguments(_)
Arguments(k) ==
    IF k = 0 THEN Required
    ELSE LET A == Arguments(k - 1)
         IN  A \cup UNION {OneMore(a) : a \in A}

\* The argument the caller passed last for each attribute whose default is
\* derived from the font size (history, kept beside the object).
Given(a) ==
    [line_spacing |-> a.line_spacing,
     line_spacing_sigma |-> a.line_spacing_sigma,
     font_size_sigma |-> a.font_size_sigma,
     word_spacing_sigma |-> a.word_spacing_sigma,
     perturb_x_sigma |-> a.perturb_x_sigma,
     perturb_y_sigma |-> a.perturb_y_sigma]

----------------------------------------------------------------------------
(* The program's steps.  last is the call made last: its name, the object  *)
(* it was made on, its argument and what it returned.                      *)

Returned(call, self, value, ret) ==
    [call |-> call, self |-> self, value |-> value, ret |-> ret]

\* a setter call on the object self that leaves it with the attributes obj
Call(call, self, value, obj, g) ==
    /\ calls < MaxCalls
    /\ heap' = [heap EXCEPT ![self] = obj]
    /\ given' = [given EXCEPT ![self] = g]
    /\ last' = Returned(call, self, value, None)
    /\ calls' = calls + 1

SetBackground ==
    \E self \in DOMAIN heap, background \in Backgrounds :
        Call("set_background", self, background,
             set_background(heap[self], background),
             given[self])

SetFontSize ==
    \E self \in DOMAIN heap, font_size \in FontSizes :
        Call("set_font_size", self, font_size,
             set_font_size(heap[self], font_size),
             given[self])

SetLineSpacing ==
    \E self \in DOMAIN heap, line_spacing \in Optional(LineSpacings) :
        Call("set_line_spacing", self, line_spacing,
             set_line_spacing(heap[self], line_spacing),
             [given[self] EXCEPT !.line_spacing = line_spacing])

SetFont ==
    \E self \in DOMAIN heap, font \in Fonts :
        Call("set_font", self, font,
             set_font(heap[self], font),
             given[self])

SetFill ==
    \E self \in DOMAIN heap, fill \in Optional(Fills) :
        Call("set_fill", self, fill,
             set_fill(heap[self], fill),
             given[self])

SetLeftMargin ==
    \E self \in DOMAIN heap, left_margin \in Margins :
        Call("set_left_margin", self, left_margin,
             set_left_margin(heap[self], left_margin),
             given[self])

SetTopMargin ==
    \E self \in DOMAIN heap, top_margin \in Margins :
        Call("set_top_margin", self, top_margin,
             set_top_margin(heap[self], top_margin),
             given[self])

SetRightMargin ==
    \E self \in DOMAIN heap, right_margin \in Margins :
        Call("set_right_margin", self, right_margin,
             set_right_margin(heap[self], right_margin),
             given[self])

SetBottomMargin ==
    \E self \in DOMAIN heap, bottom_margin \in Margins :
        Call("set_bottom_margin", self, bottom_margin,
             set_bottom_margin(heap[self], bottom_margin),
             given[self])

SetWordSpacing ==
    \E self \in DOMAIN heap, word_spacing \in WordSpacings :
        Call("set_word_spacing", self, word_spacing,
             set_word_spacing(heap[self], word_spacing),
             given[self])

SetLineSpacingSigma ==
    \E self \in DOMAIN heap, line_spacing_sigma \in Optional(Sigmas) :
        Call("set_line_spacing_sigma", self, line_spacing_sigma,
             set_line_spacing_sigma(heap[self], line_spacing_sigma),
             [given[self] EXCEPT !.line_spacing_sigma = line_spacing_sigma])

SetFontSizeSigma ==
    \E self \in DOMAIN heap, font_size_sigma \in Optional(Sigmas) :
        Call("set_font_size_sigma", self, font_size_sigma,
             set_font_size_sigma(heap[self], font_size_sigma),
             [given[self] EXCEPT !.font_size_sigma = font_size_sigma])

SetWordSpacingSigma ==
    \E self \in DOMAIN heap, word_spacing_sigma \in Optional(Sigmas) :
        Call("set_word_spacing_sigma", self, word_spacing_sigma,
             set_word_spacing_sigma(heap[self], word_spacing_sigma),
             [given[self] EXCEPT !.word_spacing_sigma = word_spacing_sigma])

SetEndChars ==
    \E self \in DOMAIN heap, end_chars \in EndChars :
        Call("set_end_chars", self, end_chars,
             set_end_chars(heap[self], end_chars),
             given[self])

SetPerturbXSigma ==
    \E self \in DOMAIN heap, perturb_x_sigma \in Optional(Sigmas) :
        Call("set_perturb_x_sigma", self, perturb_x_sigma,
             set_perturb_x_sigma(heap[self], perturb_x_sigma),
             [given[self] EXCEPT !.perturb_x_sigma = perturb_x_sigma])

SetPerturbYSigma ==
    \E self \in DOMAIN heap, perturb_y_sigma \in Optional(Sigmas) :
        Call("set_perturb_y_sigma", self, perturb_y_sigma,
             set_perturb_y_sigma(heap[self], perturb_y_sigma),
             [given[self] EXCEPT !.perturb_y_sigma = perturb_y_sigma])

SetPerturbThetaSigma ==
    \E self \in DOMAIN heap, perturb_theta_sigma \in ThetaSigmas :
        Call("set_perturb_theta_sigma", self, perturb_theta_sigma,
             set_perturb_theta_sigma(heap[self], perturb_theta_sigma),
             given[self])

Setter ==
    \/ SetBackground
    \/ SetFontSize
    \/ SetLineSpacing
    \/ SetFont
    \/ SetFill
    \/ SetLeftMargin
    \/ SetTopMargin
    \/ SetRightMargin
    \/ SetBottomMargin
    \/ SetWordSpacing
    \/ SetLineSpacingSigma
    \/ SetFontSizeSigma
    \/ SetWordSpacingSigma
    \/ SetEndChars
    \/ SetPerturbXSigma
    \/ SetPerturbYSigma
    \/ SetPerturbThetaSigma

\* self == other
Compare ==
    \E self \in DOMAIN heap,
       other \in {Object(r) : r \in DOMAIN heap} \cup {PyInt(0)} :
        /\ last' = Returned("__eq__", self, other, __eq__(Object(self), other))
        /\ UNCHANGED << heap, given, calls >>

\* copy_templates(templates), for a tuple of Template objects
CopyTemplates ==
    \E n \in 0..(MaxHeap - Len(heap)) :
        \E templates \in [1..n -> DOMAIN heap] :
            /\ heap' = HeapAfterCopy(templates)
            /\ given' = given \o [i \in 1..n |-> given[templates[i]]]
            /\ last' = Returned("copy_templates", 0, templates,
                                copy_templates(templates))
            /\ UNCHANGED calls

----------------------------------------------------------------------------
(* One Template and the setter calls made on it *)

Init ==
    \E a \in Arguments(MaxGiven) :
        /\ heap = << Template(a) >>
        /\ given = << Given(a) >>
        /\ last = Returned("__init__", 1, a, None)
        /\ calls = 0

Next == Setter

Spec == Init /\ [][Next]_vars

(* Two Templates, the setter calls made on them and their comparisons *)

InitTwo ==
    \E a \in Required, b \in Required :
        /\ heap = << Template(a), Template(b) >>
        /\ given = << Given(a), Given(b) >>
        /\ last = Returned("__init__", 2, b, None)
        /\ calls = 0

NextEq == Setter \/ Compare

SpecEq == InitTwo /\ [][NextEq]_vars

(* A Template, its copies and the setter calls made on any of them *)

InitOne ==
    \E a \in {r \in Required : /\ r.background = "paperRGB"
                               /\ r.font_size = 16} :
        /\ heap = << Template(a) >>
        /\ given = << Given(a) >>
        /\ last = Returned("__init__", 1, a, None)
        /\ calls = 0

NextCopy == Setter \/ CopyTemplates

SpecCopy == InitOne /\ [][NextCopy]_vars

----------------------------------------------------------------------------
(* Vocabulary of the properties *)

Objects == DOMAIN heap

\* PIL.Image.Image.getbands(): the number of bands of the image
ImageBands(bg) == IF bg = "paperL" THEN 1 ELSE 3

\* the seventeen attributes, by the name of their accessor get_<name>
Attributes ==
    {"background", "font_size", "line_spacing", "font", "fill", "left_margin",
     "top_margin", "right_margin", "bottom_margin", "word_spacing", "line_spacing_sigma",
     "font_size_sigma", "word_spacing_sigma", "end_chars", "perturb_x_sigma", "perturb_y_sigma", "perturb_theta_sigma"}

\* the attributes whose default is derived from the font size
Derived ==
    {"line_spacing", "line_spacing_sigma", "font_size_sigma",
     "word_spacing_sigma", "perturb_x_sigma", "perturb_y_sigma"}

\* the attributes whose setter takes an Optional argument
Optionals == Derived \cup {"fill"}

\* the default of a derived attribute for the font size n
DerivedDefault(f, n) ==
    CASE f = "line_spacing" -> n
      [] f = "font_size_sigma" -> Div64(n)
      [] OTHER -> Div32(n)

\* get_<f>() on the object with the attributes t
Getter(f, t) ==
    CASE f = "background" -> get_background(t)
      [] f = "font_size" -> get_font_size(t)
      [] f = "line_spacing" -> get_line_spacing(t)
      [] f = "font" -> get_font(t)
      [] f = "fill" -> get_fill(t)
      [] f = "left_margin" -> get_left_margin(t)
      [] f = "top_margin" -> get_top_margin(t)
      [] f = "right_margin" -> get_right_margin(t)
      [] f = "bottom_margin" -> get_bottom_margin(t)
      [] f = "word_spacing" -> get_word_spacing(t)
      [] f = "line_spacing_sigma" -> get_line_spacing_sigma(t)
      [] f = "font_size_sigma" -> get_font_size_sigma(t)
      [] f = "word_spacing_sigma" -> get_word_spacing_sigma(t)
      [] f = "end_chars" -> get_end_chars(t)
      [] f = "perturb_x_sigma" -> get_perturb_x_sigma(t)
      [] f = "perturb_y_sigma" -> get_perturb_y_sigma(t)
      [] f = "perturb_theta_sigma" -> get_perturb_theta_sigma(t)

\* the call set_<f> was made last
IsSetterCall(l) == l.call \notin {"__init__", "__eq__", "copy_templates"}
SetterOf(f, l) ==
    \/ f = "background" /\ l.call = "set_background"
    \/ f = "font_size" /\ l.call = "set_font_size"
    \/ f = "line_spacing" /\ l.call = "set_line_spacing"
    \/ f = "font" /\ l.call = "set_font"
    \/ f = "fill" /\ l.call = "set_fill"
    \/ f = "left_margin" /\ l.call = "set_left_margin"
    \/ f = "top_margin" /\ l.call = "set_top_margin"
    \/ f = "right_margin" /\ l.call = "set_right_margin"
    \/ f = "bottom_margin" /\ l.call = "set_bottom_margin"
    \/ f = "word_spacing" /\ l.call = "set_word_spacing"
    \/ f = "line_spacing_sigma" /\ l.call = "set_line_spacing_sigma"
    \/ f = "font_size_sigma" /\ l.call = "set_font_size_sigma"
    \/ f = "word_spacing_sigma" /\ l.call = "set_word_spacing_sigma"
    \/ f = "end_chars" /\ l.call = "set_end_chars"
    \/ f = "perturb_x_sigma" /\ l.call = "set_perturb_x_sigma"
    \/ f = "perturb_y_sigma" /\ l.call = "set_perturb_y_sigma"
    \/ f = "perturb_theta_sigma" /\ l.call = "set_perturb_theta_sigma"

\* every accessor returns equal values on the objects a and b
AccessorsAgree(a, b) ==
    \A f \in Attributes : Getter(f, heap[a]) = Getter(f, heap[b])

----------------------------------------------------------------------------
(* C1.  Every Template, constructed or modified by setters, has            *)
(* get_word_spacing() > -(get_font_size() // 2): a word spacing at or      *)
(* below the bound is rejected with InvalidParameter.                      *)
C1_WordSpacingAboveBound ==
    \A o \in Objects :
        get_word_spacing(heap[o]) > -(get_font_size(heap[o]) \div 2)

(* C2.  In every reachable Template state all six sigma getters return     *)
(* values >= 0: a negative sigma is rejected at the call that passes it.   *)
C2_SigmasNonNegative ==
    \A o \in Objects :
        /\ get_line_spacing_sigma(heap[o]) >= 0
        /\ get_font_size_sigma(heap[o]) >= 0
        /\ get_word_spacing_sigma(heap[o]) >= 0
        /\ get_perturb_x_sigma(heap[o]) >= 0
        /\ get_perturb_y_sigma(heap[o]) >= 0
        /\ get_perturb_theta_sigma(heap[o]) >= 0

(* C3.  In every reachable Template state the four margins are             *)
(* non-negative, left + right < width and top + bottom < height, where     *)
(* (width, height) = get_size().                                           *)
C3_MarginsFit ==
    \A o \in Objects :
        LET t == heap[o]
            width == get_size(t)[1]
            height == get_size(t)[2]
        IN  /\ get_left_margin(t) >= 0
            /\ get_top_margin(t) >= 0
            /\ get_right_margin(t) >= 0
            /\ get_bottom_margin(t) >= 0
            /\ get_left_margin(t) + get_right_margin(t) < width
            /\ get_top_margin(t) + get_bottom_margin(t) < height

(* C4.  a == b holds if and only if b is a Template and each of the 17     *)
(* accessors returns equal values on a and b: for any two objects of the   *)
(* heap, for the comparison made last (whose other operand may be no       *)
(* Template, and is then unequal), and so that == is reflexive and         *)
(* symmetric and holds of a Template whose attributes are those that       *)
(* constructing with the second Template's arguments gives.                *)
C4_EqIffAccessorsAgree ==
    /\ \A a \in Objects, b \in Objects :
        /\ __eq__(Object(a), Object(b)) <=> AccessorsAgree(a, b)
        /\ __eq__(Object(a), Object(b)) <=> __eq__(Object(b), Object(a))
        /\ __eq__(Object(a), Object(a))
    /\ \A a \in Objects : ~ __eq__(Object(a), PyInt(0))
    /\ last.call = "__eq__" =>
        last.ret = (/\ IsTemplate(last.value)
                    /\ AccessorsAgree(last.self, last.value.ref))
    /\ (last.call = "__init__" /\ Len(heap) = 2
            /\ heap[1] = Template(last.value)) =>
        __eq__(Object(1), Object(2))

\* a comparison of two distinct objects, one of them modified by a setter,
\* returned True
C4_Witness ==
    /\ last.call = "__eq__"
    /\ calls > 0
    /\ IsTemplate(last.value)
    /\ last.self # last.value.ref
    /\ last.ret = TRUE

(* C5.  A derived attribute left unset (None) returns the default derived  *)
(* from the current font size, also after a later set_font_size(n): n for  *)
(* line_spacing, n/64 for font_size_sigma, n/32 for the other sigmas.      *)
C5_UnsetFollowsFontSize ==
    \A o \in Objects : \A f \in Derived :
        given[o][f] = None =>
            Getter(f, heap[o]) = DerivedDefault(f, get_font_size(heap[o]))

(* C6.  A derived attribute the caller set explicitly to v keeps the value *)
(* v across every later set_font_size call (and every call of another      *)
(* attribute's setter).                                                    *)
C6_ExplicitKept ==
    \A o \in Objects : \A f \in Derived :
        given[o][f] # None => Getter(f, heap[o]) = Value(given[o][f])

\* set_font_size was called on a Template whose font_size_sigma was given,
\* and the value given is not the default of the new font size
C6_Witness ==
    /\ last.call = "set_font_size"
    /\ given[last.self].font_size_sigma # None
    /\ get_font_size(heap[last.self]) = last.value
    /\ get_font_size_sigma(heap[last.self]) # Div64(last.value)
    /\ get_font_size_sigma(heap[last.self]) = Value(given[last.self].font_size_sigma)

(* C7.  Right after construction with font size f, each argument left      *)
(* unset has its default (line_spacing f, line_spacing_sigma f/32,         *)
(* font_size_sigma f/64, word_spacing_sigma, perturb_x_sigma and           *)
(* perturb_y_sigma f/32, perturb_theta_sigma 0.07, word_spacing 0, the     *)
(* margins 0) and each argument given is stored as given.                  *)
C7_ConstructedDefaults ==
    last.call = "__init__" =>
        LET a == last.value
            t == heap[last.self]
            f == a.font_size
            Is(x, got, default) ==
                IF x = None THEN got = default ELSE got = Value(x)
        IN  /\ get_background(t) = a.background
            /\ get_font_size(t) = f
            /\ get_font(t) = a.font
            /\ Is(a.line_spacing, get_line_spacing(t), f)
            /\ Is(a.line_spacing_sigma, get_line_spacing_sigma(t), f * 200)
            /\ Is(a.font_size_sigma, get_font_size_sigma(t), f * 100)
            /\ Is(a.word_spacing_sigma, get_word_spacing_sigma(t), f * 200)
            /\ Is(a.perturb_x_sigma, get_perturb_x_sigma(t), f * 200)
            /\ Is(a.perturb_y_sigma, get_perturb_y_sigma(t), f * 200)
            /\ Is(a.perturb_theta_sigma, get_perturb_theta_sigma(t), 448)
            /\ Is(a.word_spacing, get_word_spacing(t), 0)
            /\ Is(a.left_margin, get_left_margin(t), 0)
            /\ Is(a.top_margin, get_top_margin(t), 0)
            /\ Is(a.right_margin, get_right_margin(t), 0)
            /\ Is(a.bottom_margin, get_bottom_margin(t), 0)
            /\ Is(a.end_chars, get_end_chars(t), _DEFAULT_END_CHARS)
            /\ a.fill # None => get_fill(t) = Value(a.fill)

\* a Template constructed with one optional argument given, the others not
C7_Witness ==
    /\ last.call = "__init__"
    /\ last.value.font_size = 16
    /\ last.value.font_size_sigma = None
    /\ last.value.line_spacing = None
    /\ last.value.word_spacing # None
    /\ get_font_size_sigma(heap[last.self]) = 1600
    /\ get_line_spacing(heap[last.self]) = 16

(* C8.  set_fill with no fill (None), as a call or in the constructor,     *)
(* stores the scalar 0 when the background has one band at that time and   *)
(* a tuple of n zeros when it has n > 1 bands; a fill supplied is stored   *)
(* unchanged.                                                              *)
C8_FillMatchesBackground ==
    LET Stored(t, fill) ==
            IF fill = None
            THEN LET n == ImageBands(get_background(t))
                 IN  IF n = 1
                     THEN get_fill(t) = Scalar(0)
                     ELSE /\ ~ get_fill(t).scalar
                          /\ Len(get_fill(t).bands) = n
                          /\ \A i \in 1..n : get_fill(t).bands[i] = 0
            ELSE get_fill(t) = Value(fill)
    IN  /\ last.call = "set_fill" => Stored(heap[last.self], last.value)
        /\ last.call = "__init__" => Stored(heap[last.self], last.value.fill)

\* set_fill() was called on a Template whose background has one band
C8_Witness ==
    /\ last.call = "set_fill"
    /\ last.value = None
    /\ get_background(heap[last.self]) = "paperL"
    /\ get_fill(heap[last.self]) = Scalar(0)
    /\ calls > 0

\* what copy_templates returned, when it was the call made last
C9_CopyResult ==
    last.call = "copy_templates" =>
        LET input == last.value
            output == last.ret
        IN  /\ Len(output) = Len(input)
            /\ \A i \in 1..Len(output) :
                /\ output[i] \in Objects
                /\ \A j \in 1..Len(input) : output[i] # input[j]
                /\ \A j \in 1..Len(output) : i # j => output[i] # output[j]
                /\ __eq__(Object(output[i]), Object(input[i]))
                /\ get_background(heap[output[i]]) = get_background(heap[input[i]])
                /\ get_font(heap[output[i]]) = get_font(heap[input[i]])

\* a setter call changes no object but the one it is made on
C9_SetterLeavesOthers ==
    [][IsSetterCall(last') /\ calls' = calls + 1 =>
        /\ DOMAIN heap' = DOMAIN heap
        /\ \A o \in Objects \ {last'.self} : heap'[o] = heap[o]]_vars

(* C9.  copy_templates returns a tuple of the length and in the order of   *)
(* its input; each element is a new object, equal (==) to the input        *)
(* Template at its place and holding the same background and font handles; *)
(* and a setter call on one object leaves every other object, a copy or    *)
(* an original, with the attributes it had.                                *)
C9_CopiesAreIndependent == []C9_CopyResult /\ C9_SetterLeavesOthers

\* two Templates that differ (one is a copy of the other, modified by a
\* setter since) were copied together
C9_Witness ==
    /\ last.call = "copy_templates"
    /\ Len(last.ret) = 2
    /\ calls > 0
    /\ heap[last.value[1]] # heap[last.value[2]]
    /\ heap[last.ret[1]] # heap[last.ret[2]]

\* the call l of set_<f>, with an argument that is not None, took the
\* object from old to new: get_<f>() returns the argument, every other
\* accessor what it returned before, and get_size() too if size_too
C10_Stored(f, l, old, new, size_too) ==
    \/ f \in Optionals /\ l.value = None
    \/ /\ Getter(f, new) = (IF f \in Optionals THEN Value(l.value) ELSE l.value)
       /\ \A g \in Attributes \ {f} : Getter(g, new) = Getter(g, old)
       /\ size_too => get_size(new) = get_size(old)

(* C10.  Each set_X stores attribute X and nothing else: after set_X(v)    *)
(* with a v that is not None, get_X() returns v and each of the other      *)
(* sixteen accessors returns what it returned before the call; get_size(), *)
(* the size of the stored background, is as before after every setter but  *)
(* set_background.                                                         *)
C10_SetterStoresOnlyItsAttribute ==
    [][calls' = calls + 1 =>
        \A f \in Attributes :
            SetterOf(f, last') =>
                C10_Stored(f, last', heap[last'.self], heap'[last'.self],
                           f # "background")]_vars

\* set_background was called on a Template whose fill was stored for the
\* mode of the background before
C10_Witness ==
    /\ last.call = "set_background"
    /\ get_background(heap[last.self]) = "paperL"
    /\ get_fill(heap[last.self]) = Tuple(<< 0, 0, 0 >>)
    /\ get_size(heap[last.self]) = << 4, 3 >>

(* C10 as stated: after set_X(v) every getter other than get_X, get_size   *)
(* among them, returns what it returned before the call.                   *)
C10_EveryOtherGetterUnchanged ==
    [][calls' = calls + 1 =>
        \A f \in Attributes :
            SetterOf(f, last') =>
                C10_Stored(f, last', heap[last'.self], heap'[last'.self],
                           TRUE)]_vars

=============================================================================
